---- MODULE Spec2Model ----
(***************************************************************************)
(* Program-derived-address derivation (Go core, WASM bridge, HTTP worker). *)
(*                                                                         *)
(* The Go core (GetProgramDerivedAddress, CreateProgramDerivedAddress,     *)
(* FindPDA, DecodeAddress, AddressFromBytes) is modelled as operators that *)
(* are computed the way the code computes them; the actions of Spec apply  *)
(* them to an input.  The worker (initWasm / fetch) is modelled as         *)
(* concurrent request processes in SpecHttp.                               *)
(*                                                                         *)
(* The two third-party primitives are abstracted:                          *)
(*   - sha256 is a deterministic fold over the bytes written to the hasher *)
(*     (so it depends on the concatenated stream only, as sha256 does);    *)
(*   - edwards25519 point decompression is an arbitrary predicate on the   *)
(*     digest, held in the variable curve (ShortCurves, LongCurves).       *)
(***************************************************************************)
EXTENDS Integers, Sequences, FiniteSets, TLC

VARIABLES
    curve,      \* which digests decompress to a curve point (see ShortCurves)
    input,      \* the ProgramDerivedAddressInput the caller passes
    frame,      \* the bump search in progress (its locals), if any
    getOut,     \* what GetProgramDerivedAddress(input) returned
    createOut,  \* what CreateProgramDerivedAddress(input) returned
    findOut,    \* what FindPDA returned
    verifyOut,  \* what CreateProgramDerivedAddress returned on Seeds ++ [bump]
    instance,   \* worker: the module-level `instance` (FALSE = undefined)
    nInstantiate, \* worker: calls of WebAssembly.instantiate so far
    nRun,       \* worker: calls of go.run so far
    reqs        \* worker: the fetch invocations in flight

vars ==
    <<curve, input, frame, getOut, createOut, findOut, verifyOut,
      instance, nInstantiate, nRun, reqs>>

outVars == <<getOut, createOut, findOut, verifyOut>>
httpVars == <<instance, nInstantiate, nRun, reqs>>

-----------------------------------------------------------------------------
(* Program constants *)

MaxSeeds == 16
MaxSeedLength == 32
AddressLen == 32
MaxBump == 255

\* []byte("ProgramDerivedAddress")
pdaMarkerBytes ==
    <<80, 114, 111, 103, 114, 97, 109, 68, 101, 114, 105, 118, 101, 100,
      65, 100, 100, 114, 101, 115, 115>>

(* Bounds of the model *)

HashMod == 257      \* size of the digest space of the abstract hash
CurveMod == 4       \* curve predicates are unions of residue classes mod CurveMod
MaxShortList == 2   \* seed lists of every shape up to this length
NumRequests == 2    \* concurrent fetch invocations

-----------------------------------------------------------------------------
(* Byte-sequence helpers *)

Repeat(x, n) == [i \in 1..n |-> x]

Zeros(n) == Repeat(0, n)

RECURSIVE Concat(_)
Concat(seqs) ==
    IF seqs = <<>> THEN <<>> ELSE Head(seqs) \o Concat(Tail(seqs))

-----------------------------------------------------------------------------
(* base58 (github.com/mr-tron/base58, Bitcoin alphabet) *)

Alphabet ==
    <<"1", "2", "3", "4", "5", "6", "7", "8", "9",
      "A", "B", "C", "D", "E", "F", "G", "H", "J", "K", "L", "M", "N", "P",
      "Q", "R", "S", "T", "U", "V", "W", "X", "Y", "Z",
      "a", "b", "c", "d", "e", "f", "g", "h", "i", "j", "k", "m", "n", "o",
      "p", "q", "r", "s", "t", "u", "v", "w", "x", "y", "z">>

AlphabetSet == {Alphabet[i] : i \in 1..Len(Alphabet)}

DigitOf(c) == (CHOOSE i \in 1..Len(Alphabet) : Alphabet[i] = c) - 1

\* the number of leading x in s
LeadingCount(s, x) ==
    LET other == {i \in 1..Len(s) : s[i] # x}
    IN  IF other = {} THEN Len(s)
        ELSE (CHOOSE i \in other : \A j \in other : i <= j) - 1

DropLeading(s, x) == SubSeq(s, LeadingCount(s, x) + 1, Len(s))

\* big-endian value of a digit string in the given radix
RECURSIVE ToNum(_, _, _)
ToNum(digits, radix, acc) ==
    IF digits = <<>> THEN acc
    ELSE ToNum(Tail(digits), radix, acc * radix + Head(digits))

\* minimal big-endian digit string of n in the given radix (empty for 0)
RECURSIVE FromNum(_, _)
FromNum(n, radix) ==
    IF n = 0 THEN <<>> ELSE Append(FromNum(n \div radix, radix), n % radix)

\* base58.Encode: one "1" per leading zero byte, then the number in base 58
Base58Encode(bytes) ==
    LET digits == FromNum(ToNum(DropLeading(bytes, 0), 256, 0), 58)
    IN  Repeat("1", LeadingCount(bytes, 0))
            \o [i \in 1..Len(digits) |-> Alphabet[digits[i] + 1]]

\* base58.Decode: an error for the empty string and for any character
\* outside the alphabet; else one zero byte per leading "1", then the bytes
\* of the number
Base58Decode(text) ==
    IF text = <<>> \/ \E i \in 1..Len(text) : text[i] \notin AlphabetSet
    THEN [err |-> TRUE, bytes |-> <<>>]
    ELSE LET rest == DropLeading(text, "1")
             digits == [i \in 1..Len(rest) |-> DigitOf(rest[i])]
         IN  [err |-> FALSE,
              bytes |-> Zeros(LeadingCount(text, "1"))
                            \o FromNum(ToNum(digits, 58, 0), 256)]

\* func AddressFromBytes(bytes [32]byte) string
AddressFromBytes(bytes) == Base58Encode(bytes)

NoError == [kind |-> "none", arg |-> 0]
ErrInvalidBase58 == [kind |-> "ErrInvalidBase58", arg |-> 0]
ErrInvalidLength(n) == [kind |-> "InvalidLength", arg |-> n]
ErrMaxSeedsExceeded(n) == [kind |-> "ErrMaxSeedsExceeded", arg |-> n]
ErrSeedTooLong(n) == [kind |-> "ErrSeedTooLong", arg |-> n]
ErrPointOnCurve == [kind |-> "ErrPointOnCurve", arg |-> 0]
ErrNoViableBump == [kind |-> "NoViableBump", arg |-> 0]
ErrTooManySeeds == [kind |-> "too many seeds", arg |-> 0]

\* DecodeAddress with the length checked before the decoder's error
DecodeAddressLengthFirst(addr) ==
    LET d == Base58Decode(addr)
    IN  IF Len(d.bytes) # AddressLen
        THEN [err |-> ErrInvalidLength(Len(d.bytes)), bytes |-> Zeros(AddressLen)]
        ELSE IF d.err THEN [err |-> ErrInvalidBase58, bytes |-> Zeros(AddressLen)]
        ELSE [err |-> NoError, bytes |-> d.bytes]

\* func DecodeAddress(addr string) ([32]byte, error)
DecodeAddress(addr) ==
    LET d == Base58Decode(addr)
    IN  IF d.err THEN [err |-> ErrInvalidBase58, bytes |-> Zeros(AddressLen)]
        ELSE IF Len(d.bytes) # AddressLen
        THEN [err |-> ErrInvalidLength(Len(d.bytes)), bytes |-> Zeros(AddressLen)]
        ELSE [err |-> NoError, bytes |-> d.bytes]

\* func (a Address) ToBytes() ([32]byte, error)
ToBytes(a) == DecodeAddress(a)

-----------------------------------------------------------------------------
(* sha256 and the curve check *)

HashInit == 7
HashMul == 5

\* HashMul^n mod HashMod
RECURSIVE HashPow(_)
HashPow(n) ==
    IF n = 0 THEN 1
    ELSE LET half == HashPow(n \div 2)
         IN  (half * half * (IF n % 2 = 1 THEN HashMul ELSE 1)) % HashMod

\* the powers for every length one Write can have
HashPowers ==
    [n \in 0..((MaxSeeds + 2) * (MaxSeedLength + 2)) |-> HashPow(n)]

\* what absorbing bytes[lo..hi] adds to the hasher state
RECURSIVE HashBlock(_, _, _)
HashBlock(bytes, lo, hi) ==
    IF lo > hi THEN 0
    ELSE IF lo = hi THEN (bytes[lo] + 1) % HashMod
    ELSE LET mid == (lo + hi) \div 2
         IN  (HashBlock(bytes, lo, mid) * HashPowers[hi - mid]
                + HashBlock(bytes, mid + 1, hi)) % HashMod

\* hasher.Write: absorbs the bytes in order, h := (h * HashMul + b + 1) %
\* HashMod for each byte b (evaluated by halving the byte sequence)
HasherWrite(h, bytes) ==
    (h * HashPowers[Len(bytes)] + HashBlock(bytes, 1, Len(bytes))) % HashMod

\* copy(digest[:], hasher.Sum(nil)): the digest as 32 bytes
HasherSum(h) == Zeros(AddressLen - 2) \o <<h \div 256, h % 256>>

DigestValue(digest) == digest[AddressLen - 1] * 256 + digest[AddressLen]

\* p.SetBytes(digest[:]) returns err == nil
SetBytesOk(digest) ==
    /\ DigestValue(digest) % CurveMod \in curve.classes
    /\ DigestValue(digest) \notin curve.off

-----------------------------------------------------------------------------
(* PDA logic: func GetProgramDerivedAddress *)

\* what a core call returned: err, the address and bump, and the bumps for
\* which a digest was computed (tried) / the number of digests computed
Outcome(op, err, address, bump, tried, hashes) ==
    [op |-> op, err |-> err, address |-> address, bump |-> bump,
     tried |-> tried, hashes |-> hashes]

NoCall == Outcome("none", NoError, <<>>, 0, <<>>, 0)

Failed(op, err) == Outcome(op, err, <<>>, 0, <<>>, 0)

NoFrame == [op |-> "none"]

\* the locals of a bump search at the head of its for loop
Frame(op, seeds, programIdBytes, bump, tried, caller) ==
    [op |-> op, seeds |-> seeds, programIdBytes |-> programIdBytes,
     bump |-> bump, tried |-> tried, caller |-> caller]

\* for _, seed := range Seeds { if len(seed) > MaxSeedLength { return } }:
\* the index of the seed the loop returns at, 0 when it runs to the end
\* the length check with >= for >
SeedTooLongAtInclusive(seeds) ==
    IF \E i \in 1..Len(seeds) : Len(seeds[i]) >= MaxSeedLength
    THEN CHOOSE i \in 1..Len(seeds) :
            /\ Len(seeds[i]) >= MaxSeedLength
            /\ \A j \in 1..(i - 1) : ~(Len(seeds[j]) >= MaxSeedLength)
    ELSE 0

SeedTooLongAt(seeds) ==
    IF \E i \in 1..Len(seeds) : Len(seeds[i]) > MaxSeedLength
    THEN CHOOSE i \in 1..Len(seeds) :
            /\ Len(seeds[i]) > MaxSeedLength
            /\ \A j \in 1..(i - 1) : ~(Len(seeds[j]) > MaxSeedLength)
    ELSE 0

\* the count check without the slot kept for the bump
GetSeedCountNoReserve(seeds) == Len(seeds) > MaxSeeds

\* if len(input.Seeds)+1 > MaxSeeds
GetSeedCountExceeded(seeds) == Len(seeds) + 1 > MaxSeeds

\* the checks before the loop: the error returned, NoError to enter the loop
GetPreconditions(in) ==
    IF GetSeedCountExceeded(in.Seeds)
    THEN ErrMaxSeedsExceeded(Len(in.Seeds) + 1)
    ELSE LET i == SeedTooLongAt(in.Seeds)
         IN  IF i # 0 THEN ErrSeedTooLong(Len(in.Seeds[i]))
             ELSE ToBytes(in.ProgramAddress).err

\* the loop body's hasher: seeds, the bump byte, the program id, the marker
GetDigest(seeds, bump, programIdBytes) ==
    LET h0 == HashInit
        h1 == HasherWrite(h0, Concat(seeds))
        h2 == HasherWrite(h1, <<bump % 256>>)
        h3 == HasherWrite(h2, programIdBytes)
        h4 == HasherWrite(h3, pdaMarkerBytes)
    IN  HasherSum(h4)

\* the search started one bump too low
GetFirstBumpLow == MaxBump - 1

\* the search stopped before bump 0
GetLoopCondSkipsZero(bump) == bump > 0

\* for bump := 255; ...
GetFirstBump == MaxBump

\* ...; bump >= 0; ...
GetLoopCond(bump) == bump >= 0

\* one pass through `for bump := 255; bump >= 0; bump--`: the frame at the
\* head of the next pass, or the value returned
GetLoopPass(f) ==
    IF ~GetLoopCond(f.bump)
    THEN [ret |-> TRUE,
          out |-> Outcome("Get", ErrNoViableBump, <<>>, 0, f.tried, Len(f.tried))]
    ELSE LET digest == GetDigest(f.seeds, f.bump, f.programIdBytes)
             now == Append(f.tried, f.bump)
         IN  IF SetBytesOk(digest)
             THEN [ret |-> FALSE, frame |-> [f EXCEPT !.bump = @ - 1, !.tried = now]]
             ELSE [ret |-> TRUE,
                   out |-> Outcome("Get", NoError, AddressFromBytes(digest),
                                   f.bump % 256, now, Len(now))]

-----------------------------------------------------------------------------
(* func CreateProgramDerivedAddress *)

\* the count check of the search mode, with a slot kept for a bump
CreateSeedCountReserved(seeds) == Len(seeds) + 1 > MaxSeeds

\* if len(input.Seeds) > MaxSeeds
CreateSeedCountExceeded(seeds) == Len(seeds) > MaxSeeds

CreatePreconditions(in) ==
    IF CreateSeedCountExceeded(in.Seeds)
    THEN ErrMaxSeedsExceeded(Len(in.Seeds))
    ELSE LET i == SeedTooLongAt(in.Seeds)
         IN  IF i # 0 THEN ErrSeedTooLong(Len(in.Seeds[i]))
             ELSE ToBytes(in.ProgramAddress).err

\* the hasher without the marker
CreateDigestNoMarker(seeds, programIdBytes) ==
    LET h0 == HashInit
        h1 == HasherWrite(h0, Concat(seeds))
        h2 == HasherWrite(h1, programIdBytes)
    IN  HasherSum(h2)

\* the hasher: seeds, the program id, the marker
CreateDigest(seeds, programIdBytes) ==
    LET h0 == HashInit
        h1 == HasherWrite(h0, Concat(seeds))
        h2 == HasherWrite(h1, programIdBytes)
        h3 == HasherWrite(h2, pdaMarkerBytes)
    IN  HasherSum(h3)

\* the hashing and the curve check, once the program address is decoded
CreateFromDigest(seeds, programIdBytes) ==
    LET digest == CreateDigest(seeds, programIdBytes)
    IN  IF SetBytesOk(digest)
        THEN Outcome("Create", ErrPointOnCurve, <<>>, 0, <<>>, 1)
        ELSE Outcome("Create", NoError, AddressFromBytes(digest), 0, <<>>, 1)

CreateProgramDerivedAddress(in) ==
    LET err == CreatePreconditions(in)
    IN  IF err # NoError THEN Failed("Create", err)
        ELSE CreateFromDigest(in.Seeds, ToBytes(in.ProgramAddress).bytes)

-----------------------------------------------------------------------------
(* func FindPDA *)

\* if len(seeds) > MaxSeeds
FindSeedCountExceeded(seeds) == Len(seeds) > MaxSeeds

FindPreconditions(programIdStr, seeds) ==
    IF FindSeedCountExceeded(seeds) THEN ErrTooManySeeds
    ELSE DecodeAddress(programIdStr).err

FindDigest(seeds, bump, programIdBytes) ==
    LET h0 == HashInit
        h1 == HasherWrite(h0, Concat(seeds))
        h2 == HasherWrite(h1, <<bump % 256>>)
        h3 == HasherWrite(h2, programIdBytes)
        h4 == HasherWrite(h3, pdaMarkerBytes)
    IN  HasherSum(h4)

FindLoopPass(f) ==
    IF ~(f.bump >= 0)
    THEN [ret |-> TRUE,
          out |-> Outcome("Find", ErrNoViableBump, <<>>, 0, f.tried, Len(f.tried))]
    ELSE LET digest == FindDigest(f.seeds, f.bump, f.programIdBytes)
             now == Append(f.tried, f.bump)
         IN  IF SetBytesOk(digest)
             THEN [ret |-> FALSE, frame |-> [f EXCEPT !.bump = @ - 1, !.tried = now]]
             ELSE [ret |-> TRUE,
                   out |-> Outcome("Find", NoError, AddressFromBytes(digest),
                                   f.bump % 256, now, Len(now))]

-----------------------------------------------------------------------------
(* Inputs of the core calls *)

\* "11111111111111111111111111111111", the program address of the tests
SystemProgram == Repeat("1", AddressLen)

ProgramAddresses ==
    { SystemProgram,
      Repeat("1", AddressLen - 1) \o <<"2">>,      \* decodes to 0,...,0,1
      Repeat("1", AddressLen - 1),                 \* decodes to 31 bytes
      <<"i", "n", "v", "a", "l", "i", "d", "-", "b", "a", "s", "e", "5", "8",
        "-", "!", "@", "#", "$">>,                 \* the test's invalid address
      <<>> }

SeedPool ==
    { <<>>, <<1>>, Zeros(MaxSeedLength), Zeros(MaxSeedLength + 1) }

ShortLists == UNION { [1..n -> SeedPool] : n \in 0..MaxShortList }

\* two overlong seeds of different lengths, in both orders
TwoLongLists ==
    { <<Zeros(MaxSeedLength + 1), Zeros(MaxSeedLength + 2)>>,
      <<Zeros(MaxSeedLength + 2), Zeros(MaxSeedLength + 1)>> }

\* lists around the seed-count limit, all seeds one byte, and the same with
\* an overlong last seed
LongLists ==
    UNION { { Repeat(<<1>>, n),
              Repeat(<<1>>, n - 1) \o <<Zeros(MaxSeedLength + 1)>> }
            : n \in (MaxSeeds - 2)..(MaxSeeds + 1) }

Inputs ==
    [ProgramAddress : ProgramAddresses,
     Seeds : ShortLists \cup TwoLongLists \cup LongLists]

\* the digest of the reference input (system program, no seeds) at a bump
RefDigest(bump) ==
    DigestValue(GetDigest(<<>>, bump, DecodeAddress(SystemProgram).bytes))

\* the curve predicates: a digest is a curve point when its residue mod
\* CurveMod is one of `classes` and it is not in `off`
AllClasses == 0..(CurveMod - 1)

\* every union of residue classes but the full one (all off-curve among
\* them): the search ends after a few bumps
ShortCurves ==
    { [classes |-> R, off |-> {}] : R \in (SUBSET AllClasses) \ {AllClasses} }

\* every digest on-curve; and a single digest off-curve, that of the
\* reference input at bump 0, at bump 1 and at the highest bump: the search
\* runs through (nearly) all bumps
LongCurves ==
    { [classes |-> AllClasses, off |-> {}] }
        \cup { [classes |-> AllClasses, off |-> {RefDigest(b)}]
               : b \in {0, 1, MaxBump} }

\* the inputs tried under the long curves
LongSearchInputs ==
    [ProgramAddress : {SystemProgram},
     Seeds : { <<>>, <<<<1>>>>, Repeat(<<1>>, MaxSeeds - 1),
               Repeat(<<1>>, MaxSeeds) }]

-----------------------------------------------------------------------------
(* State machine of the core.  The core is synchronous and keeps no state  *)
(* between calls, so the caller's calls on its input are taken in one      *)
(* order: GetProgramDerivedAddress, the cross-check of its bump with       *)
(* CreateProgramDerivedAddress, CreateProgramDerivedAddress on the input   *)
(* itself, FindPDA.                                                        *)

HttpIdle ==
    /\ instance = FALSE
    /\ nInstantiate = 0
    /\ nRun = 0
    /\ reqs = [i \in 1..NumRequests |-> [pc |-> "none"]]

Init ==
    /\ \/ curve \in ShortCurves /\ input \in Inputs
       \/ curve \in LongCurves /\ input \in LongSearchInputs
    /\ frame = NoFrame
    /\ getOut = NoCall
    /\ createOut = NoCall
    /\ findOut = NoCall
    /\ verifyOut = NoCall
    /\ HttpIdle

\* GetProgramDerivedAddress(input), up to the head of its loop
GetStart ==
    /\ frame = NoFrame
    /\ getOut.op = "none"
    /\ LET err == GetPreconditions(input)
       IN  IF err # NoError
           THEN /\ getOut' = Failed("Get", err)
                /\ frame' = frame
           ELSE /\ frame' = Frame("Get", input.Seeds,
                                  ToBytes(input.ProgramAddress).bytes,
                                  GetFirstBump, <<>>, 0)
                /\ getOut' = getOut
    /\ UNCHANGED <<curve, input, createOut, findOut, verifyOut, httpVars>>

\* one pass of the loop of GetProgramDerivedAddress
GetBumpStep ==
    /\ frame.op = "Get"
    /\ LET r == GetLoopPass(frame)
       IN  IF r.ret
           THEN /\ getOut' = r.out
                /\ frame' = NoFrame
           ELSE /\ frame' = r.frame
                /\ getOut' = getOut
    /\ UNCHANGED <<curve, input, createOut, findOut, verifyOut, httpVars>>

CallCreate ==
    /\ frame = NoFrame
    /\ getOut.op # "none"
    /\ getOut.err = NoError => verifyOut.op # "none"
    /\ createOut.op = "none"
    /\ createOut' = CreateProgramDerivedAddress(input)
    /\ UNCHANGED <<curve, input, frame, getOut, findOut, verifyOut, httpVars>>

\* FindPDA(input.ProgramAddress, input.Seeds), up to the head of its loop
FindStart ==
    /\ frame = NoFrame
    /\ createOut.op # "none"
    /\ findOut.op = "none"
    /\ LET err == FindPreconditions(input.ProgramAddress, input.Seeds)
       IN  IF err # NoError
           THEN /\ findOut' = Failed("Find", err)
                /\ frame' = frame
           ELSE /\ frame' = Frame("Find", input.Seeds,
                                  DecodeAddress(input.ProgramAddress).bytes,
                                  MaxBump, <<>>, 0)
                /\ findOut' = findOut
    /\ UNCHANGED <<curve, input, getOut, createOut, verifyOut, httpVars>>

\* one pass of the loop of FindPDA
FindBumpStep ==
    /\ frame.op = "Find"
    /\ LET r == FindLoopPass(frame)
       IN  IF r.ret
           THEN /\ findOut' = r.out
                /\ frame' = NoFrame
           ELSE /\ frame' = r.frame
                /\ findOut' = findOut
    /\ UNCHANGED <<curve, input, getOut, createOut, verifyOut, httpVars>>

\* seedsWithBump := originalSeeds ++ [[]byte{pda.Bump}];
\* CreateProgramDerivedAddress(verifyInput)
VerifyBump ==
    /\ frame = NoFrame
    /\ getOut.op = "Get"
    /\ getOut.err = NoError
    /\ verifyOut.op = "none"
    /\ verifyOut' = CreateProgramDerivedAddress(
                       [ProgramAddress |-> input.ProgramAddress,
                        Seeds |-> Append(input.Seeds, <<getOut.bump>>)])
    /\ UNCHANGED <<curve, input, frame, getOut, createOut, findOut, httpVars>>

Next ==
    \/ GetStart
    \/ GetBumpStep
    \/ CallCreate
    \/ FindStart
    \/ FindBumpStep
    \/ VerifyBump

Spec == Init /\ [][Next]_vars

-----------------------------------------------------------------------------
(* WASM bridge (main.go) *)

\* JavaScript values that reach the bridge as seeds
JsString(chars) == [k |-> "string", v |-> chars]
JsUint8Array(bytes) == [k |-> "Uint8Array", v |-> bytes]
JsObject == [k |-> "object", v |-> <<>>]
JsNumber == [k |-> "number", v |-> <<>>]

\* the UTF-8 bytes of a character
Utf8Char(c) ==
    CASE c = "a" -> <<97>>
      [] c = "b" -> <<98>>
      [] c = "U+00E9" -> <<195, 169>>

\* []byte(val.String())
Utf8(chars) == Concat([i \in 1..Len(chars) |-> Utf8Char(chars[i])])

\* func parseToBytes(val js.Value) ([]byte, error); val.Get panics on a
\* value that is no object
parseToBytes(val) ==
    IF val.k = "string"
    THEN [st |-> "ok", bytes |-> Utf8(val.v)]
    ELSE IF val.k \notin {"object", "Uint8Array"}
    THEN [st |-> "panic", bytes |-> <<>>]
    ELSE IF val.k = "Uint8Array"
    THEN [st |-> "ok", bytes |-> val.v]
    ELSE [st |-> "error", bytes |-> <<>>]

\* the loop of getProgramDerivedAddressJS over seedsJS: the first seed that
\* does not parse ends it
ParseSeeds(seedsJS) ==
    LET parsed == [i \in 1..Len(seedsJS) |-> parseToBytes(seedsJS[i])]
    IN  IF \E i \in 1..Len(seedsJS) : parsed[i].st # "ok"
        THEN LET first == CHOOSE i \in 1..Len(seedsJS) :
                            /\ parsed[i].st # "ok"
                            /\ \A j \in 1..(i - 1) : parsed[j].st = "ok"
             IN  [st |-> parsed[first].st, seeds |-> <<>>]
        ELSE [st |-> "ok", seeds |-> [i \in 1..Len(seedsJS) |-> parsed[i].bytes]]

\* what getProgramDerivedAddressJS returns for what FindPDA returned
BridgeResult(out) ==
    IF out.err # NoError
    THEN [error |-> TRUE, address |-> <<>>, bump |-> 0]
    ELSE [error |-> FALSE, address |-> out.address, bump |-> out.bump]

-----------------------------------------------------------------------------
(* HTTP worker (fryan-raccoon/src/index.ts) *)

Missing == [k |-> "missing", v |-> <<>>]
JsonString(chars) == [k |-> "string", v |-> chars]
JsonArray(elems) == [k |-> "array", v |-> elems]
JsonObject == [k |-> "object", v |-> <<>>]
JsonNumber == [k |-> "number", v |-> <<>>]

\* !x for a property of the parsed body
Falsy(x) == x.k = "missing" \/ (x.k = "string" /\ x.v = <<>>)

Post(body) == [method |-> "POST", body |-> body]
Body(programId, seeds) ==
    [json |-> "object", programId |-> programId, seeds |-> seeds]

InvalidProgram == <<"0", "O", "I", "l">>

SeedArrays ==
    { <<>>,
      <<JsonString(<<"a">>)>>,
      <<JsonString(<<"a", "U+00E9">>)>>,
      <<JsonArray(<<1, 2>>)>>,
      <<JsonArray(Zeros(MaxSeedLength + 1))>>,
      <<JsonObject>>,
      <<JsonNumber>>,
      <<JsonString(<<"a">>), JsonNumber>>,
      Repeat(JsonString(<<"b">>), MaxSeeds),
      Repeat(JsonString(<<"b">>), MaxSeeds + 1) }

HttpRequests ==
    { [method |-> "GET", body |-> [json |-> "malformed"]],
      Post([json |-> "malformed"]),
      Post([json |-> "null"]),
      Post(Body(Missing, JsonArray(<<JsonString(<<"a">>)>>))),
      Post(Body(JsonString(<<>>), JsonArray(<<JsonString(<<"a">>)>>))),
      Post(Body(JsonString(InvalidProgram), JsonArray(<<JsonString(<<"a">>)>>))),
      Post(Body(JsonString(SystemProgram), Missing)),
      Post(Body(JsonString(SystemProgram), JsonString(<<"a">>))) }
        \cup { Post(Body(JsonString(SystemProgram), JsonArray(a))) : a \in SeedArrays }

Response(status, type, body) == [status |-> status, type |-> type, body |-> body]

ServerError == Response(500, "text", "Server Error")

\* seeds.map(s => Array.isArray(s) ? new Uint8Array(s) : s), as the values
\* the bridge sees
ProcessSeed(s) ==
    IF s.k = "array" THEN JsUint8Array(s.v)
    ELSE IF s.k = "string" THEN JsString(s.v)
    ELSE IF s.k = "object" THEN JsObject
    ELSE JsNumber

\* the body of fetch's try block up to the call of FindPDA: the response it
\* ends with, or the arguments FindPDA is called with
HandlePost(body) ==
    IF body.json # "object"
    THEN [st |-> "respond", resp |-> ServerError]
    ELSE IF Falsy(body.programId) \/ Falsy(body.seeds)
    THEN [st |-> "respond",
          resp |-> Response(400, "text", "Missing programId or seeds")]
    ELSE IF body.seeds.k # "array"
    THEN [st |-> "respond", resp |-> ServerError]
    ELSE LET processedSeeds ==
                 [i \in 1..Len(body.seeds.v) |-> ProcessSeed(body.seeds.v[i])]
             parsed == ParseSeeds(processedSeeds)
         IN  IF parsed.st = "panic"
             THEN [st |-> "respond", resp |-> ServerError]
             ELSE IF parsed.st = "error"
             THEN [st |-> "respond", resp |-> Response(400, "json", "error")]
             ELSE [st |-> "call", progID |-> body.programId.v,
                   seeds |-> parsed.seeds]

\* the rest of the try block, from the value the bridge returned
RespondTo(result) ==
    IF result.error THEN Response(400, "json", "error")
    ELSE Response(200, "json", "result")

HttpCurves ==
    { [classes |-> {}, off |-> {}], [classes |-> AllClasses \ {0}, off |-> {}] }

InitHttp ==
    /\ curve \in HttpCurves
    /\ input = [ProgramAddress |-> SystemProgram, Seeds |-> <<>>]
    /\ frame = NoFrame
    /\ getOut = NoCall
    /\ createOut = NoCall
    /\ findOut = NoCall
    /\ verifyOut = NoCall
    /\ HttpIdle

\* a request arrives: fetch runs into initWasm, up to its await
FetchStart(i) ==
    /\ frame = NoFrame
    /\ reqs[i].pc = "none"
    /\ \E r \in HttpRequests :
          IF ~instance
          THEN /\ nInstantiate' = nInstantiate + 1
               /\ reqs' = [reqs EXCEPT ![i] = [pc |-> "instantiating", req |-> r]]
          ELSE /\ nInstantiate' = nInstantiate
               /\ reqs' = [reqs EXCEPT ![i] = [pc |-> "ready", req |-> r]]
    /\ UNCHANGED <<curve, input, frame, outVars, instance, nRun>>

\* WebAssembly.instantiate has resolved: instance = ...; go.run(instance)
InstantiateDone(i) ==
    /\ frame = NoFrame
    /\ reqs[i].pc = "instantiating"
    /\ instance' = TRUE
    /\ nRun' = nRun + 1
    /\ reqs' = [reqs EXCEPT ![i].pc = "ready"]
    /\ UNCHANGED <<curve, input, frame, outVars, nInstantiate>>

\* fetch after `await initWasm()`, up to its response or into FindPDA
FetchHandle(i) ==
    /\ frame = NoFrame
    /\ reqs[i].pc = "ready"
    /\ LET r == reqs[i].req
           h == HandlePost(r.body)
           err == FindPreconditions(h.progID, h.seeds)
       IN  IF r.method # "POST"
           THEN /\ reqs' = [reqs EXCEPT ![i] =
                              [pc |-> "done", req |-> r,
                               resp |-> Response(200, "text", "Send a POST request")]]
                /\ UNCHANGED <<frame, findOut>>
           ELSE IF h.st = "respond"
           THEN /\ reqs' = [reqs EXCEPT ![i] =
                              [pc |-> "done", req |-> r, resp |-> h.resp]]
                /\ UNCHANGED <<frame, findOut>>
           ELSE IF err # NoError
           THEN /\ reqs' = [reqs EXCEPT ![i] =
                              [pc |-> "done", req |-> r,
                               resp |-> RespondTo(BridgeResult(Failed("Find", err)))]]
                /\ UNCHANGED <<frame, findOut>>
           ELSE /\ frame' = Frame("Find", h.seeds, DecodeAddress(h.progID).bytes,
                                  MaxBump, <<>>, i)
                /\ findOut' = NoCall
                /\ reqs' = [reqs EXCEPT ![i].pc = "inGo"]
    /\ UNCHANGED <<curve, input, getOut, createOut, verifyOut,
                   instance, nInstantiate, nRun>>

\* FindPDA has returned to the bridge, the bridge to fetch
FetchRespond(i) ==
    /\ frame = NoFrame
    /\ reqs[i].pc = "inGo"
    /\ reqs' = [reqs EXCEPT ![i] =
                  [pc |-> "done", req |-> reqs[i].req,
                   resp |-> RespondTo(BridgeResult(findOut))]]
    /\ findOut' = NoCall
    /\ UNCHANGED <<curve, input, frame, getOut, createOut, verifyOut,
                   instance, nInstantiate, nRun>>

NextHttp ==
    \/ \E i \in 1..NumRequests : FetchStart(i)
    \/ \E i \in 1..NumRequests : InstantiateDone(i)
    \/ \E i \in 1..NumRequests : FetchHandle(i)
    \/ FindBumpStep
    \/ \E i \in 1..NumRequests : FetchRespond(i)

SpecHttp == InitHttp /\ [][NextHttp]_vars

-----------------------------------------------------------------------------
(* Properties.  The digests the properties speak of are computed from the  *)
(* byte stream they name, not by the hashers of the calls.                 *)

\* the digest of a byte stream
DigestOf(stream) == HasherSum(HasherWrite(HashInit, stream))

\* the digest of Seeds ++ [b] ++ programId ++ marker for the current input
SearchDigest(b) ==
    DigestOf(Concat(input.Seeds) \o <<b>>
                \o DecodeAddress(input.ProgramAddress).bytes \o pdaMarkerBytes)

\* the digest of Seeds ++ programId ++ marker for the current input
DirectDigest ==
    DigestOf(Concat(input.Seeds)
                \o DecodeAddress(input.ProgramAddress).bytes \o pdaMarkerBytes)

Bumps == 0..MaxBump

AllSeedsShort == \A i \in 1..Len(input.Seeds) : Len(input.Seeds[i]) <= MaxSeedLength

\* the length of the first seed longer than MaxSeedLength
FirstLongSeedLength ==
    LET long == {i \in 1..Len(input.Seeds) : Len(input.Seeds[i]) > MaxSeedLength}
    IN  Len(input.Seeds[CHOOSE i \in long : \A j \in long : i <= j])

Decodable == DecodeAddress(input.ProgramAddress).err = NoError

HasForeignChar ==
    \E i \in 1..Len(input.ProgramAddress) :
        input.ProgramAddress[i] \notin AlphabetSet

\* GetProgramDerivedAddress has returned and the caller has not gone on
GetReturned ==
    getOut.op = "Get" /\ verifyOut.op = "none" /\ createOut.op = "none"

\* CreateProgramDerivedAddress(input) has returned and the caller has not gone on
CreateReturned ==
    createOut.op = "Create" /\ findOut.op = "none" /\ frame = NoFrame

\* FindPDA has returned
FindReturned == findOut.op = "Find"

\* C1: when GetProgramDerivedAddress succeeds, its bump is the largest b in
\* 0..255 whose digest of Seeds ++ [b] ++ programId ++ marker is off-curve
\* (that digest is off-curve, every larger bump's is on-curve), and its
\* address is the encoding of that digest.
C1_BumpIsLargestOffCurve ==
    (GetReturned /\ getOut.err = NoError) =>
        /\ getOut.bump \in Bumps
        /\ ~SetBytesOk(SearchDigest(getOut.bump))
        /\ \A b \in (getOut.bump + 1)..MaxBump : SetBytesOk(SearchDigest(b))
        /\ getOut.address = Base58Encode(SearchDigest(getOut.bump))

\* the search succeeded after rejecting at least two bumps
C1_Witness ==
    GetReturned /\ getOut.err = NoError /\ getOut.bump < MaxBump - 1

\* C2: when GetProgramDerivedAddress succeeds with {A, k}, also with 15
\* seeds, CreateProgramDerivedAddress on Seeds ++ [[k]] succeeds and returns A.
C2_CrossModeConsistency ==
    verifyOut.op = "Create" =>
        /\ verifyOut.err = NoError
        /\ verifyOut.address = getOut.address

\* the cross-check has run on an input with 15 seeds
C2_Witness ==
    /\ verifyOut.op = "Create"
    /\ Len(input.Seeds) = MaxSeeds - 1
    /\ verifyOut.address = getOut.address

\* C3: with a valid program address and seeds of valid length,
\* GetProgramDerivedAddress is not rejected for seed count with at most 15
\* seeds, and with 16 or more it is rejected with ErrMaxSeedsExceeded without
\* trying any bump.
C3_SeedCountBoundary ==
    /\ (frame.op = "Get" /\ frame.caller = 0) => Len(input.Seeds) <= MaxSeeds - 1
    /\ (GetReturned /\ Decodable /\ AllSeedsShort) =>
          /\ Len(input.Seeds) <= MaxSeeds - 1
                => getOut.err.kind # "ErrMaxSeedsExceeded"
          /\ Len(input.Seeds) >= MaxSeeds
                => /\ getOut.err.kind = "ErrMaxSeedsExceeded"
                   /\ getOut.tried = <<>>
                   /\ getOut.hashes = 0

\* 16 valid seeds were rejected for their count
C3_Witness ==
    /\ GetReturned /\ Decodable /\ AllSeedsShort
    /\ Len(input.Seeds) = MaxSeeds
    /\ getOut.err.kind = "ErrMaxSeedsExceeded"

\* the seed-length part of C4 for one call's outcome
SeedLengthBoundary(out) ==
    /\ AllSeedsShort => out.err.kind # "ErrSeedTooLong"
    /\ ~AllSeedsShort =>
          /\ out.err = ErrSeedTooLong(FirstLongSeedLength)
          /\ out.tried = <<>>
          /\ out.hashes = 0

\* C4: in GetProgramDerivedAddress and CreateProgramDerivedAddress, with the
\* seed count within budget, seeds of at most 32 bytes are never rejected
\* for length, and a seed longer than 32 bytes is rejected with
\* ErrSeedTooLong carrying the first such seed's length, before any hashing.
C4_SeedLengthBoundary ==
    /\ (frame.op = "Get" /\ frame.caller = 0) => AllSeedsShort
    /\ (GetReturned /\ Len(input.Seeds) + 1 <= MaxSeeds)
          => SeedLengthBoundary(getOut)
    /\ (CreateReturned /\ Len(input.Seeds) <= MaxSeeds)
          => SeedLengthBoundary(createOut)

\* both calls rejected a 34-byte seed that comes before a 33-byte seed
C4_Witness ==
    /\ CreateReturned
    /\ Len(input.Seeds[1]) = MaxSeedLength + 2
    /\ createOut.err = ErrSeedTooLong(MaxSeedLength + 2)
    /\ getOut.err = ErrSeedTooLong(MaxSeedLength + 2)

\* C5 as claimed: a call whose program address has a character outside the
\* base-58 alphabet fails with ErrInvalidBase58 before any hashing.
C5_ForeignCharIsInvalidBase58 ==
    HasForeignChar =>
        /\ GetReturned => (getOut.err = ErrInvalidBase58 /\ getOut.hashes = 0)
        /\ CreateReturned
              => (createOut.err = ErrInvalidBase58 /\ createOut.hashes = 0)

\* C5 as amended: such a call fails before any hashing, and with
\* ErrInvalidBase58 when its seeds pass the count and length checks (which
\* come first).
C5_ForeignCharFailsBeforeHashing ==
    HasForeignChar =>
        /\ ~(frame.op = "Get" /\ frame.caller = 0)
        /\ GetReturned =>
              /\ getOut.err # NoError /\ getOut.hashes = 0 /\ getOut.tried = <<>>
              /\ (Len(input.Seeds) + 1 <= MaxSeeds /\ AllSeedsShort)
                    => getOut.err = ErrInvalidBase58
        /\ CreateReturned =>
              /\ createOut.err # NoError /\ createOut.hashes = 0
              /\ (Len(input.Seeds) <= MaxSeeds /\ AllSeedsShort)
                    => createOut.err = ErrInvalidBase58

\* both calls rejected the test's invalid address with ErrInvalidBase58
C5_Witness ==
    /\ HasForeignChar
    /\ CreateReturned
    /\ createOut.err = ErrInvalidBase58
    /\ getOut.err = ErrInvalidBase58

\* the error kinds of the specification
ErrorKind(err) ==
    IF err.kind \in {"ErrMaxSeedsExceeded", "too many seeds"} THEN "TooManySeeds"
    ELSE err.kind

\* C6: FindPDA and GetProgramDerivedAddress agree on every input: both
\* succeed with the same address and bump, or both fail with the same kind
\* of error.
C6_FindAgreesWithGet ==
    (FindReturned /\ getOut.op = "Get") =>
        /\ ErrorKind(findOut.err) = ErrorKind(getOut.err)
        /\ findOut.address = getOut.address
        /\ findOut.bump = getOut.bump

\* C8: with at most 16 seeds of at most 32 bytes and a decodable program
\* address, CreateProgramDerivedAddress computes one digest, over Seeds ++
\* programId ++ marker, fails with ErrPointOnCurve exactly when it is
\* on-curve, and otherwise returns its encoding.
C8_DirectMode ==
    (CreateReturned /\ Len(input.Seeds) <= MaxSeeds /\ AllSeedsShort /\ Decodable) =>
        /\ createOut.hashes = 1
        /\ createOut.err = ErrPointOnCurve <=> SetBytesOk(DirectDigest)
        /\ ~SetBytesOk(DirectDigest) =>
              /\ createOut.err = NoError
              /\ createOut.address = Base58Encode(DirectDigest)

\* direct mode failed with ErrPointOnCurve on 16 seeds
C8_Witness ==
    /\ CreateReturned
    /\ Len(input.Seeds) = MaxSeeds
    /\ createOut.err = ErrPointOnCurve

\* n, n-1, ..., down from the first bump
Descending(tried) == \A k \in 1..Len(tried) : tried[k] = MaxBump + 1 - k

\* C9: the search of GetProgramDerivedAddress tries the bumps 255 down to 0,
\* each once, so at most 256, and fails with NoViableBump exactly when the
\* preconditions passed and all 256 digests are on-curve.
C9_SearchIsBounded ==
    /\ (frame.op = "Get" /\ frame.caller = 0) =>
          /\ frame.bump \in -1..MaxBump
          /\ Len(frame.tried) = MaxBump - frame.bump
          /\ Descending(frame.tried)
    /\ GetReturned =>
          /\ Len(getOut.tried) <= MaxBump + 1
          /\ Descending(getOut.tried)
          /\ getOut.hashes = Len(getOut.tried)
          /\ getOut.err = ErrNoViableBump <=>
                /\ Len(input.Seeds) + 1 <= MaxSeeds
                /\ AllSeedsShort
                /\ Decodable
                /\ \A b \in Bumps : SetBytesOk(SearchDigest(b))

\* the search ran through all 256 bumps and failed
C9_Witness ==
    /\ GetReturned
    /\ getOut.err = ErrNoViableBump
    /\ Len(getOut.tried) = MaxBump + 1

\* a failure of the request that its sender caused
CallerInputFailure(r, resp) ==
    \/ r.body.json # "object"
    \/ Falsy(r.body.programId)
    \/ Falsy(r.body.seeds)
    \/ r.body.seeds.k # "array"
    \/ \E j \in 1..Len(r.body.seeds.v) : r.body.seeds.v[j].k \in {"object", "number"}
    \/ resp.body = "error"

\* C7: every POST that fails because of its sender's input is answered with
\* status 400.
C7_CallerErrorsAre400 ==
    \A i \in 1..NumRequests :
        (/\ reqs[i].pc = "done"
         /\ reqs[i].req.method = "POST"
         /\ CallerInputFailure(reqs[i].req, reqs[i].resp))
            => reqs[i].resp.status = 400

\* C10: initWasm instantiates the module and starts the Go runtime at most
\* once, under any interleaving of requests.
C10_InstantiatedOnce == nInstantiate <= 1 /\ nRun <= 1

====
